---- MODULE Spec2Model ----
(***************************************************************************)
(* TaskFlow front end (frontend/src/App.js): the session manager           *)
(* (AuthProvider), the Dashboard with its task and user fetches, the       *)
(* TaskCard (status update, comments) and the CreateTaskDialog.  The REST  *)
(* backend is the environment: it answers each request with a success or   *)
(* a failure, in any order.                                                *)
(*                                                                         *)
(* Strings the code inspects (search terms, names, comment texts) are      *)
(* sequences of one-character strings, so that trim, toLowerCase and       *)
(* includes are computed as the JavaScript methods compute them.           *)
(***************************************************************************)
EXTENDS Integers, Sequences, FiniteSets, TLC

VARIABLES
    \* AuthProvider (App.js 32-102)
    storedToken,    \* localStorage 'token'
    token,          \* useState token
    user,           \* useState user
    authLoading,    \* useState loading
    authHeader,     \* axios.defaults.headers.common['Authorization']
    meReqs,         \* GET /api/auth/me requests in flight
    authReqs,       \* POST /api/auth/login and /api/auth/register requests in flight
    \* App, Login and Register (App.js 104-288, 961-996)
    isLogin,        \* App: useState isLogin
    formLoading,    \* the mounted form: useState loading
    formError,      \* the mounted form: useState error
    \* Dashboard (App.js 290-320)
    tasks,          \* useState tasks
    users,          \* useState users
    loading,        \* useState loading
    activeTab,      \* useState activeTab
    tasksReqs,      \* GET /api/tasks requests in flight
    usersReqs,      \* GET /api/users requests in flight
    \* TaskCard (App.js 548-611), one card per task id
    showComments,
    newComment,
    newStatus,
    patchReqs,      \* PATCH /api/tasks/{id} requests in flight
    commentReqs,    \* POST /api/tasks/{id}/comments requests in flight
    \* CreateTaskDialog (App.js 731-800)
    open,
    formData,
    dlgLoading,
    searchTerm,
    createReqs,     \* POST /api/tasks requests in flight
    \* the backend and the bookkeeping of the run
    srvUsers,       \* the roster GET /api/users answers with
    srvTasks,       \* the tasks GET /api/tasks answers with
    srvWriter,      \* per task, the request of the last status update applied
    nextId,         \* number of the next request issued
    ev              \* the handler that ran last, with its arguments

authVars   == <<storedToken, token, user, authLoading, authHeader, meReqs, authReqs>>
formVars   == <<isLogin, formLoading, formError>>
dashVars   == <<tasks, users, loading, activeTab, tasksReqs, usersReqs>>
cardVars   == <<showComments, newComment, newStatus, patchReqs, commentReqs>>
dialogVars == <<open, formData, dlgLoading, searchTerm, createReqs>>
envVars    == <<srvUsers, srvTasks, srvWriter, nextId>>
vars       == <<authVars, formVars, dashVars, cardVars, dialogVars, envVars, ev>>

----------------------------------------------------------------------------
(* Bounds of the model *)

MaxLevel == 3      \* role_level ranges over 1..MaxLevel
MaxReq   == 4      \* requests one run issues after the mount (status updates and
                   \* their refetches; logins and their /auth/me)
MaxComments == 1   \* comments one run posts
MaxLen   == 1      \* length of a typed comment
MaxCreates == 1    \* tasks one run creates through the dialog

UserIds  == {1, 2, 3}
Levels   == 1..MaxLevel

----------------------------------------------------------------------------
(* Strings *)

Range(s) == {s[i] : i \in DOMAIN s}

\* String.prototype.toLowerCase, on the letters the model types
lowerChar(c) ==
    CASE c = "A" -> "a"
      [] c = "B" -> "b"
      [] c = "C" -> "c"
      [] OTHER   -> c

toLowerCase(s) == [i \in DOMAIN s |-> lowerChar(s[i])]

\* String.prototype.includes: the empty string is included in every string
includes(hay, needle) ==
    \E i \in 1..(Len(hay) + 1) :
        /\ i + Len(needle) - 1 <= Len(hay)
        /\ SubSeq(hay, i, i + Len(needle) - 1) = needle

isSpace(c) == c = " "

RECURSIVE trimStart(_)
trimStart(s) ==
    IF s # <<>> /\ isSpace(Head(s)) THEN trimStart(Tail(s)) ELSE s

RECURSIVE trimEnd(_)
trimEnd(s) ==
    IF s # <<>> /\ isSpace(s[Len(s)]) THEN trimEnd(SubSeq(s, 1, Len(s) - 1)) ELSE s

\* (a slip of trim: nothing is stripped)
trimNothing(s) == s

\* String.prototype.trim
trim(s) == trimEnd(trimStart(s))

----------------------------------------------------------------------------
(* Users *)

NameOf(i)  == CASE i = 1 -> <<"A", "l">> [] i = 2 -> <<"B", "o">> [] OTHER -> <<"C", "y">>
EmailOf(i) == CASE i = 1 -> <<"a", "@">> [] i = 2 -> <<"b", "@">> [] OTHER -> <<"c", "@">>
RoleOf(l)  == CASE l = 1 -> <<"d", "e", "v">> [] l = 2 -> <<"l", "e", "a", "d">> [] OTHER -> <<"m", "g", "r">>

\* a User as the backend returns it
UserRec(i, l) ==
    [id |-> i, name |-> NameOf(i), email |-> EmailOf(i), role |-> RoleOf(l), role_level |-> l]

NoUser == [id |-> 0, name |-> <<>>, email |-> <<>>, role |-> <<>>, role_level |-> 0]

\* the rosters: the users of a set of ids, each once, in any order
RECURSIVE Perms(_)
Perms(S) ==
    IF S = {} THEN {<<>>}
    ELSE UNION {{<<x>> \o p : p \in Perms(S \ {x})} : x \in S}

Rosters(lvl) ==
    UNION {{[i \in DOMAIN p |-> UserRec(p[i], lvl[p[i]])] : p \in Perms(S)} : S \in SUBSET UserIds}

----------------------------------------------------------------------------
(* Tasks *)

Statuses   == {"assigned", "in_progress", "completed"}
Priorities == {"low", "medium", "high"}
Tabs       == {"my-tasks", "assigned-tasks", "team-overview"}

\* the status update a fetchTasks() call follows: the PATCH request whose success
\* handler called it, NoCause for every other call
NoCause == [id |-> 0, task |-> 0, status |-> ""]

\* what login() and register() return: {success: true} or {success: false, error};
\* NoResult for every other handler
NoResult == [success |-> FALSE, error |-> ""]

\* what every handler leaves in ev: its name and the task, user or request it was
\* for; a completed fetchTasks() also leaves its cause and what the backend had
\* seen (see TasksReq), login() and register() what they returned
Ev(op, id) == [op |-> op, id |-> id, cause |-> NoCause, seen |-> 0, result |-> NoResult]

----------------------------------------------------------------------------
(* Dashboard: the roster and the views derived from it *)

\* (slips of the filters below: the self test dropped, the comparison made
\* strict, the level test dropped)
assignableWithSelf(u, currentUser) == u.role_level <= currentUser.role_level
assignableAnyLevel(u, currentUser) == u.id # currentUser.id
teamVisibleStrict(u, currentUser) == u.role_level < currentUser.role_level
teamVisibleAll(u, currentUser) == TRUE

\* (a slip of the filter below: the comparison reversed)
assignableReversed(u, currentUser) ==
    IF u.id = currentUser.id THEN FALSE
    ELSE u.role_level >= currentUser.role_level

\* CreateTaskDialog: const assignableUsers = users.filter(...)
assignable(u, currentUser) ==
    IF u.id = currentUser.id THEN FALSE
    ELSE u.role_level <= currentUser.role_level

assignableUsers(us, currentUser) ==
    SelectSeq(us, LAMBDA u : assignable(u, currentUser))

\* CreateTaskDialog: const filteredUsers = assignableUsers.filter(...)
matchesSearch(u, term) ==
    \/ includes(toLowerCase(u.name), toLowerCase(term))
    \/ includes(toLowerCase(u.role), toLowerCase(term))
    \/ includes(toLowerCase(u.email), toLowerCase(term))

filteredUsers(us, currentUser, term) ==
    SelectSeq(assignableUsers(us, currentUser), LAMBDA u : matchesSearch(u, term))

\* Team Overview: users.filter(u => u.role_level <= user.role_level)
teamVisible(u, currentUser) == u.role_level <= currentUser.role_level

\* Array.prototype.sort((a, b) => b.role_level - a.role_level): stable, descending
RECURSIVE insertByLevel(_, _)
insertByLevel(sorted, u) ==
    IF sorted = <<>> THEN <<u>>
    ELSE IF Head(sorted).role_level - u.role_level < 0
         THEN <<u>> \o sorted
         ELSE <<Head(sorted)>> \o insertByLevel(Tail(sorted), u)

RECURSIVE sortByLevelDesc(_)
sortByLevelDesc(us) ==
    IF us = <<>> THEN <<>>
    ELSE insertByLevel(sortByLevelDesc(SubSeq(us, 1, Len(us) - 1)), us[Len(us)])

teamOverview(us, currentUser) ==
    sortByLevelDesc(SelectSeq(us, LAMBDA u : teamVisible(u, currentUser)))

\* what the screen shows: the Dashboard renders its tabs once loading is false
teamOverviewShown ==
    IF ~loading /\ activeTab = "team-overview" THEN teamOverview(users, user) ELSE <<>>

\* the candidate cards the open dialog shows
candidatesShown ==
    IF ~loading /\ open THEN filteredUsers(users, user, searchTerm) ELSE <<>>

\* fetchUsers: the response arrives
fetchUsersOk(r) ==
    /\ r \in usersReqs
    /\ users' = srvUsers
    /\ usersReqs' = usersReqs \ {r}
    /\ ev' = Ev("fetchUsersOk", r.id)
    /\ UNCHANGED <<tasks, loading, activeTab, tasksReqs>>
    /\ UNCHANGED <<authVars, formVars, cardVars, dialogVars, envVars>>

\* fetchUsers: the request fails, which is logged
fetchUsersFail(r) ==
    /\ r \in usersReqs
    /\ usersReqs' = usersReqs \ {r}
    /\ ev' = Ev("fetchUsersFail", r.id)
    /\ UNCHANGED <<tasks, users, loading, activeTab, tasksReqs>>
    /\ UNCHANGED <<authVars, formVars, cardVars, dialogVars, envVars>>

\* Tabs onValueChange={setActiveTab}
setActiveTab(tab) ==
    /\ ~loading
    /\ user # NoUser
    /\ activeTab' = tab
    /\ ev' = Ev("setActiveTab", 0)
    /\ UNCHANGED <<tasks, users, loading, tasksReqs, usersReqs>>
    /\ UNCHANGED <<authVars, formVars, cardVars, dialogVars, envVars>>

----------------------------------------------------------------------------
(* Dashboard: the task list *)

MountReqs == 2     \* the mount issues fetchTasks (request 1) and fetchUsers (request 2)

\* a Task as the backend returns it
TaskRec(i, st, to, by, cs) ==
    [id |-> i, status |-> st, assigned_to |-> to, assigned_by |-> by, comments |-> cs]

TaskIdsOf(ts) == {ts[i].id : i \in DOMAIN ts}

\* the task of the list with this id
TaskById(ts, i) == ts[CHOOSE k \in DOMAIN ts : ts[k].id = i]

\* mutations whose success handler has still to issue its refetch
PendingMutations == Cardinality(patchReqs) + Cardinality(commentReqs) + Cardinality(createReqs)

\* the run issues at most MaxReq requests after the mount: a mutation is issued
\* only while its own refetch, and the refetch of every mutation still in
\* flight, fits in
CanIssue == nextId + PendingMutations + 1 <= MountReqs + MaxReq

\* fetchTasks(): axios.get(`${API}/tasks`) is sent
\* (cause: the status update whose success handler called it, NoCause otherwise;
\* seen: the request of the last status update the backend had applied to that
\* task when it answered the refetch; tok: the Authorization header axios attached from its
\* defaults; session: the token AuthProvider held when it was sent)
TasksReq(i, cause) ==
    [id |-> i, phase |-> "sent", data |-> <<>>, cause |-> cause, seen |-> 0,
     tok |-> authHeader, session |-> token]

\* fetchUsers(): axios.get(`${API}/users`) is sent
UsersReq(i) == [id |-> i, tok |-> authHeader, session |-> token]

\* React keeps a TaskCard's state while its key (task.id) stays in the list and
\* mounts a new card, with useState's initial values, for a new key
cardState(old, fresh) ==
    [i \in DOMAIN fresh |-> IF i \in DOMAIN old THEN old[i] ELSE fresh[i]]

----------------------------------------------------------------------------
(* CreateTaskDialog *)

NoAssignee == 0    \* assigned_to: ''
NoDate     == "null"
DueDates   == {NoDate, "2026-01-01"}
FormTexts  == {<<>>, <<"a">>}
SearchTerms == {<<>>, <<"B">>, <<"m", "g">>}

\* (a slip of the defaults: another priority)
formDefaultsLow ==
    [title |-> <<>>, description |-> <<>>, assigned_to |-> NoAssignee,
     priority |-> "low", due_date |-> NoDate]

\* useState({title: '', description: '', assigned_to: '', priority: 'medium', due_date: null})
formDefaults ==
    [title |-> <<>>, description |-> <<>>, assigned_to |-> NoAssignee,
     priority |-> "medium", due_date |-> NoDate]

\* the dialog's form is on screen
dialogShown == user # NoUser /\ ~loading /\ open

dialogUnchanged == UNCHANGED <<authVars, formVars, dashVars, cardVars, envVars>>

\* Dialog onOpenChange={setOpen}; the trigger opens, Cancel closes
setOpen(v) ==
    /\ user # NoUser /\ ~loading
    /\ open # v
    /\ open' = v
    /\ ev' = Ev("setOpen", 0)
    /\ UNCHANGED <<formData, dlgLoading, searchTerm, createReqs>>
    /\ dialogUnchanged

\* handleChange(field, value) from the title, description, priority and date inputs
handleChange(field, value) ==
    /\ dialogShown
    /\ formData[field] # value
    /\ formData' = [formData EXCEPT ![field] = value]
    /\ ev' = Ev("handleChange", 0)
    /\ UNCHANGED <<open, dlgLoading, searchTerm, createReqs>>
    /\ dialogUnchanged

\* the search input: onChange={(e) => setSearchTerm(e.target.value)}
setSearchTerm(term) ==
    /\ dialogShown
    /\ searchTerm # term
    /\ searchTerm' = term
    /\ ev' = Ev("setSearchTerm", 0)
    /\ UNCHANGED <<open, formData, dlgLoading, createReqs>>
    /\ dialogUnchanged

\* a candidate card: onClick={() => handleChange('assigned_to', user.id)}
clickCandidate(u) ==
    /\ dialogShown
    /\ u \in Range(filteredUsers(users, user, searchTerm))
    /\ formData' = [formData EXCEPT !.assigned_to = u.id]
    /\ ev' = Ev("clickCandidate", u.id)
    /\ UNCHANGED <<open, dlgLoading, searchTerm, createReqs>>
    /\ dialogUnchanged

\* the native constraints of the form: title and description are `required`
formValid == formData.title # <<>> /\ formData.description # <<>>

\* the submit button: disabled={loading}
submitEnabled == ~dlgLoading

\* the run creates at most MaxCreates tasks: the POST and the refetch its success
\* starts both fit in
CanCreate == nextId + 1 <= MountReqs + 2 * MaxCreates

\* handleSubmit up to its await: setLoading(true); axios.post(`${API}/tasks`, formData)
handleSubmit ==
    /\ dialogShown
    /\ formValid
    /\ submitEnabled
    /\ CanCreate
    /\ dlgLoading' = TRUE
    /\ createReqs' = createReqs \cup {[id |-> nextId, body |-> formData]}
    /\ nextId' = nextId + 1
    /\ ev' = Ev("handleSubmit", nextId)
    /\ UNCHANGED <<open, formData, searchTerm, srvUsers, srvTasks, srvWriter>>
    /\ UNCHANGED <<authVars, formVars, dashVars, cardVars>>

\* the backend stores the task; handleSubmit resumes after its await: the form is
\* reset, the dialog closed, onTaskCreated() (fetchTasks) called, loading cleared
createOk(r) ==
    /\ r \in createReqs
    /\ srvTasks' = Append(srvTasks,
           TaskRec(Len(srvTasks) + 1, "assigned", r.body.assigned_to, user.id, <<>>))
    /\ createReqs' = createReqs \ {r}
    /\ formData' = formDefaults
    /\ open' = FALSE
    /\ tasksReqs' = tasksReqs \cup {TasksReq(nextId, NoCause)}
    /\ nextId' = nextId + 1
    /\ dlgLoading' = FALSE
    /\ ev' = Ev("createOk", r.id)
    /\ srvWriter' = [i \in TaskIdsOf(srvTasks') |-> IF i \in DOMAIN srvWriter THEN srvWriter[i] ELSE 0]
    /\ UNCHANGED <<searchTerm, srvUsers, tasks, users, loading, activeTab, usersReqs>>
    /\ UNCHANGED <<authVars, formVars, cardVars>>

\* the request fails: handleSubmit logs it and clears loading
createFail(r) ==
    /\ r \in createReqs
    /\ createReqs' = createReqs \ {r}
    /\ dlgLoading' = FALSE
    /\ ev' = Ev("createFail", r.id)
    /\ UNCHANGED <<open, formData, searchTerm>>
    /\ dialogUnchanged

----------------------------------------------------------------------------
(* Dashboard.fetchTasks *)

\* the backend answers GET /api/tasks with the tasks it holds at that moment
tasksServe(r) ==
    /\ r \in tasksReqs /\ r.phase = "sent"
    /\ tasksReqs' = (tasksReqs \ {r}) \cup
           {[r EXCEPT !.phase = "ok", !.data = srvTasks,
                      !.seen = IF r.cause.task \in DOMAIN srvWriter
                               THEN srvWriter[r.cause.task] ELSE 0]}
    /\ ev' = Ev("tasksServe", r.id)
    /\ UNCHANGED <<tasks, users, loading, activeTab, usersReqs>>
    /\ UNCHANGED <<authVars, formVars, cardVars, dialogVars, envVars>>

\* useState initial values of a TaskCard
initShowComments(task) == FALSE
initNewComment(task) == <<>>
initNewStatus(task) == task.status

\* (a slip of setTasks: only the first response is kept)
keepFirstTasks(data) == IF tasks = <<>> THEN data ELSE tasks

\* setTasks(response.data)
setTasks(data) == data

\* fetchTasks after its await: setTasks(response.data), finally setLoading(false)
fetchTasksOk(r) ==
    /\ r \in tasksReqs /\ r.phase = "ok"
    /\ tasks' = setTasks(r.data)
    /\ loading' = FALSE
    /\ tasksReqs' = tasksReqs \ {r}
    /\ showComments' = cardState(showComments, [i \in TaskIdsOf(tasks') |-> initShowComments(TaskById(tasks', i))])
    /\ newComment' = cardState(newComment, [i \in TaskIdsOf(tasks') |-> initNewComment(TaskById(tasks', i))])
    /\ newStatus' = cardState(newStatus, [i \in TaskIdsOf(tasks') |-> initNewStatus(TaskById(tasks', i))])
    /\ ev' = [Ev("fetchTasksOk", r.id) EXCEPT !.cause = r.cause, !.seen = r.seen]
    /\ UNCHANGED <<users, activeTab, usersReqs, patchReqs, commentReqs>>
    /\ UNCHANGED <<authVars, formVars, dialogVars, envVars>>

\* (a slip of fetchTasks: setLoading(false) on the success path only)
fetchTasksFailKeepsLoading(r) ==
    /\ r \in tasksReqs
    /\ tasksReqs' = tasksReqs \ {r}
    /\ ev' = [Ev("fetchTasksFail", r.id) EXCEPT !.cause = r.cause, !.seen = r.seen]
    /\ UNCHANGED <<tasks, users, loading, activeTab, usersReqs>>
    /\ UNCHANGED <<authVars, formVars, cardVars, dialogVars, envVars>>

\* fetchTasks, the request fails: logged, finally setLoading(false)
fetchTasksFail(r) ==
    /\ r \in tasksReqs
    /\ loading' = FALSE
    /\ tasksReqs' = tasksReqs \ {r}
    /\ ev' = [Ev("fetchTasksFail", r.id) EXCEPT !.cause = r.cause, !.seen = r.seen]
    /\ UNCHANGED <<tasks, users, activeTab, usersReqs>>
    /\ UNCHANGED <<authVars, formVars, cardVars, dialogVars, envVars>>

----------------------------------------------------------------------------
(* TaskCard *)

CommentChars == {" ", "a"}

RECURSIVE TextsUpTo(_)
TextsUpTo(n) ==
    IF n = 0 THEN {<<>>}
    ELSE TextsUpTo(n - 1) \cup
         {Append(t, c) : t \in {x \in TextsUpTo(n - 1) : Len(x) = n - 1}, c \in CommentChars}

CommentTexts == TextsUpTo(MaxLen)

\* the card of task i is on screen: My Tasks maps assignedToMe, Assigned by Me
\* maps assignedByMe
cardShown(i) ==
    /\ user # NoUser /\ ~loading
    /\ i \in TaskIdsOf(tasks)
    /\ \/ activeTab = "my-tasks" /\ TaskById(tasks, i).assigned_to = user.id
       \/ activeTab = "assigned-tasks" /\ TaskById(tasks, i).assigned_by = user.id

\* (a slip of the status control: shown to the assigner)
statusControlForAssigner(i) ==
    cardShown(i) /\ TaskById(tasks, i).assigned_by = user.id

\* {task.assigned_to === currentUser.id && ( ...Update Status... )}
statusControlShown(i) ==
    cardShown(i) /\ TaskById(tasks, i).assigned_to = user.id

\* (a slip of the Update button: shown for a later status only)
updateButtonForwardOnly(i) ==
    LET rank(st) == CASE st = "assigned" -> 1 [] st = "in_progress" -> 2 [] OTHER -> 3
    IN  statusControlShown(i) /\ rank(newStatus[i]) > rank(TaskById(tasks, i).status)

\* {newStatus !== task.status && ( <Button onClick={handleStatusUpdate}> )}
updateButtonShown(i) ==
    statusControlShown(i) /\ newStatus[i] # TaskById(tasks, i).status

cardUnchanged == UNCHANGED <<authVars, formVars, dashVars, dialogVars, envVars>>

\* Select onValueChange={setNewStatus}
setNewStatus(i, s) ==
    /\ statusControlShown(i)
    /\ newStatus[i] # s
    /\ newStatus' = [newStatus EXCEPT ![i] = s]
    /\ ev' = Ev("setNewStatus", i)
    /\ UNCHANGED <<showComments, newComment, patchReqs, commentReqs>>
    /\ cardUnchanged

\* handleStatusUpdate up to its await
handleStatusUpdate(i) ==
    /\ updateButtonShown(i)
    /\ newStatus[i] # TaskById(tasks, i).status
    /\ CanIssue
    /\ patchReqs' = patchReqs \cup {[id |-> nextId, task |-> i, status |-> newStatus[i]]}
    /\ nextId' = nextId + 1
    /\ ev' = Ev("handleStatusUpdate", i)
    /\ UNCHANGED <<showComments, newComment, newStatus, commentReqs>>
    /\ UNCHANGED <<srvUsers, srvTasks, srvWriter>>
    /\ UNCHANGED <<authVars, formVars, dashVars, dialogVars>>

\* the backend's PATCH /api/tasks/{id}
applyStatus(ts, i, s) ==
    [k \in DOMAIN ts |-> IF ts[k].id = i THEN [ts[k] EXCEPT !.status = s] ELSE ts[k]]

\* the backend applies the status; handleStatusUpdate resumes: onTaskUpdated()
patchOk(r) ==
    /\ r \in patchReqs
    /\ srvTasks' = applyStatus(srvTasks, r.task, r.status)
    /\ srvWriter' = [srvWriter EXCEPT ![r.task] = r.id]
    /\ patchReqs' = patchReqs \ {r}
    /\ tasksReqs' = tasksReqs \cup {TasksReq(nextId, r)}
    /\ nextId' = nextId + 1
    /\ ev' = Ev("patchOk", r.id)
    /\ UNCHANGED <<showComments, newComment, newStatus, commentReqs, srvUsers>>
    /\ UNCHANGED <<tasks, users, loading, activeTab, usersReqs>>
    /\ UNCHANGED <<authVars, formVars, dialogVars>>

\* (a slip of the catch block: onTaskUpdated() is called on failure too)
patchFailRefetches(r) ==
    /\ r \in patchReqs
    /\ patchReqs' = patchReqs \ {r}
    /\ tasksReqs' = tasksReqs \cup {TasksReq(nextId, NoCause)}
    /\ nextId' = nextId + 1
    /\ ev' = Ev("patchFail", r.id)
    /\ UNCHANGED <<showComments, newComment, newStatus, commentReqs>>
    /\ UNCHANGED <<tasks, users, loading, activeTab, usersReqs>>
    /\ UNCHANGED <<authVars, formVars, dialogVars, srvUsers, srvTasks, srvWriter>>

\* the request fails: logged
patchFail(r) ==
    /\ r \in patchReqs
    /\ patchReqs' = patchReqs \ {r}
    /\ ev' = Ev("patchFail", r.id)
    /\ UNCHANGED <<showComments, newComment, newStatus, commentReqs>>
    /\ cardUnchanged

\* the Show / Hide button: setShowComments(!showComments)
toggleComments(i) ==
    /\ cardShown(i)
    /\ showComments' = [showComments EXCEPT ![i] = ~showComments[i]]
    /\ ev' = Ev("toggleComments", i)
    /\ UNCHANGED <<newComment, newStatus, patchReqs, commentReqs>>
    /\ cardUnchanged

\* the comment Textarea: onChange={(e) => setNewComment(e.target.value)}
setNewComment(i, text) ==
    /\ cardShown(i) /\ showComments[i]
    /\ newComment[i] # text
    /\ newComment' = [newComment EXCEPT ![i] = text]
    /\ ev' = Ev("setNewComment", i)
    /\ UNCHANGED <<showComments, newStatus, patchReqs, commentReqs>>
    /\ cardUnchanged

\* the run posts at most MaxComments comments: each POST and the refetch its
\* success starts fit in
CanComment == nextId + PendingMutations + 1 <= MountReqs + 2 * MaxComments

\* the Add button: disabled={!newComment.trim()}
addDisabled(i) == trim(newComment[i]) = <<>>

\* handleAddComment up to its await: if (!newComment.trim()) return;
handleAddComment(i) ==
    IF trim(newComment[i]) = <<>>
    THEN /\ UNCHANGED <<cardVars, envVars>>
    ELSE /\ CanComment
         /\ commentReqs' = commentReqs \cup {[id |-> nextId, task |-> i, text |-> newComment[i]]}
         /\ nextId' = nextId + 1
         /\ UNCHANGED <<showComments, newComment, newStatus, patchReqs>>
         /\ UNCHANGED <<srvUsers, srvTasks, srvWriter>>

\* a click on the Add button: a disabled button swallows it
clickAdd(i) ==
    /\ cardShown(i) /\ showComments[i]
    /\ IF addDisabled(i)
       THEN UNCHANGED <<cardVars, envVars>>
       ELSE handleAddComment(i)
    /\ ev' = Ev("clickAdd", i)
    /\ UNCHANGED <<authVars, formVars, dashVars, dialogVars>>

\* the backend's POST /api/tasks/{id}/comments
applyComment(ts, i, c) ==
    [k \in DOMAIN ts |->
        IF ts[k].id = i THEN [ts[k] EXCEPT !.comments = Append(@, c)] ELSE ts[k]]

\* the backend appends the comment; handleAddComment resumes: setNewComment(''),
\* onTaskUpdated()
commentOk(r) ==
    /\ r \in commentReqs
    /\ srvTasks' = applyComment(srvTasks, r.task, [author |-> user.id, text |-> r.text])
    /\ commentReqs' = commentReqs \ {r}
    /\ newComment' = [i \in DOMAIN newComment |-> IF i = r.task THEN <<>> ELSE newComment[i]]
    /\ tasksReqs' = tasksReqs \cup {TasksReq(nextId, NoCause)}
    /\ nextId' = nextId + 1
    /\ ev' = Ev("commentOk", r.id)
    /\ UNCHANGED <<showComments, newStatus, patchReqs, srvUsers, srvWriter>>
    /\ UNCHANGED <<tasks, users, loading, activeTab, usersReqs>>
    /\ UNCHANGED <<authVars, formVars, dialogVars>>

\* the request fails: logged
commentFail(r) ==
    /\ r \in commentReqs
    /\ commentReqs' = commentReqs \ {r}
    /\ ev' = Ev("commentFail", r.id)
    /\ UNCHANGED <<showComments, newComment, newStatus, patchReqs>>
    /\ cardUnchanged

----------------------------------------------------------------------------
(* AuthProvider, Login and Register *)

NoToken   == "null"
Accounts  == {1, 2}
TokenOf(a) == CASE a = 1 -> "tok1" [] a = 2 -> "tok2" [] OTHER -> "tok3"
Tokens    == {TokenOf(a) : a \in Accounts}
OwnerOf(t) == CHOOSE a \in UserIds : TokenOf(a) = t

\* the profile the backend returns for an account
AccountUser(a) == UserRec(a, IF a <= MaxLevel THEN a ELSE MaxLevel)

\* AuthContent: the spinner, the Dashboard, or the Login / Register form
formShown(l, u) == ~l /\ u = NoUser
dashboardShown  == ~authLoading /\ user # NoUser

\* a login or register request may be issued only while the /auth/me request its
\* success starts, and that of every such request in flight, fits in MaxReq
CanLogin == nextId + Cardinality(authReqs) + 1 <= MaxReq

\* the form that awaits these requests is unmounted: its setState calls are lost
orphaned(reqs) == {[r EXCEPT !.orphan = TRUE] : r \in reqs}

\* the form's state after this step: a form that unmounts loses it, and the next
\* one mounts with useState's initial values
formAfter(unmounts, l, e) ==
    /\ formLoading' = IF unmounts THEN FALSE ELSE l
    /\ formError' = IF unmounts THEN "" ELSE e

\* (a slip of the effect: the header is left as it was)
effectHeaderKept(new, header) == header
\* axios.defaults.headers.common['Authorization'] = `Bearer ${token}`
effectHeader(new, header) == new

\* fetchCurrentUser(): axios.get(`${API}/auth/me`) is sent, with the header axios
\* attaches from its defaults, while AuthProvider holds this token
MeReq(i, header, t) == [id |-> i, tok |-> header, session |-> t]

\* useEffect(..., [token]) after a render in which token changed:
\* with a token, the header is set and fetchCurrentUser() called; without, setLoading(false)
tokenEffect(old, new, header, reqs, ld) ==
    IF new = old
    THEN /\ authHeader' = header
         /\ meReqs' = reqs
         /\ authLoading' = ld
         /\ nextId' = nextId
    ELSE IF new # NoToken
    THEN /\ authHeader' = effectHeader(new, header)
         /\ meReqs' = reqs \cup {MeReq(nextId, authHeader', new)}
         /\ authLoading' = ld
         /\ nextId' = nextId + 1
    ELSE /\ authHeader' = header
         /\ meReqs' = reqs
         /\ authLoading' = FALSE
         /\ nextId' = nextId

\* AuthContent after the render this step causes: user ? <Dashboard /> : a form.
\* A Dashboard that mounts starts from useState's initial values and its effect
\* calls fetchTasks() and fetchUsers(); one that unmounts takes its state, its
\* cards and its dialog with it, and the answers to its requests are dropped.
dashboardEffect ==
    LET was == dashboardShown
        now == ~authLoading' /\ user' # NoUser
    IN  /\ IF was = now
           THEN UNCHANGED <<dashVars, cardVars, dialogVars>>
           ELSE /\ tasks' = <<>> /\ users' = <<>> /\ loading' = TRUE
                /\ activeTab' = "my-tasks"
                /\ tasksReqs' = IF now
                      THEN {[TasksReq(1, NoCause) EXCEPT !.tok = authHeader', !.session = token']}
                      ELSE {}
                /\ usersReqs' = IF now
                      THEN {[UsersReq(MountReqs) EXCEPT !.tok = authHeader', !.session = token']}
                      ELSE {}
                /\ showComments' = <<>> /\ newComment' = <<>> /\ newStatus' = <<>>
                /\ patchReqs' = {} /\ commentReqs' = {}
                /\ open' = FALSE /\ formData' = formDefaults /\ dlgLoading' = FALSE
                /\ searchTerm' = <<>> /\ createReqs' = {}
        /\ UNCHANGED <<srvUsers, srvTasks, srvWriter>>

\* (slips of logout: the header is not deleted; the stored token is not removed)
logoutKeepsStored == [stored |-> storedToken, token |-> NoToken, user |-> NoUser, header |-> NoToken]
logoutKeepsHeader == [stored |-> NoToken, token |-> NoToken, user |-> NoUser, header |-> authHeader]
\* logout(): what it leaves in storage, token, user and the default header
logoutState == [stored |-> NoToken, token |-> NoToken, user |-> NoUser, header |-> NoToken]

\* the Logout button of the Dashboard header, rendered once the Dashboard's
\* loading is false: onClick={logout}
logout ==
    /\ dashboardShown /\ ~loading
    /\ storedToken' = logoutState.stored
    /\ token' = logoutState.token
    /\ user' = logoutState.user
    /\ tokenEffect(token, logoutState.token, logoutState.header, meReqs, authLoading)
    /\ ev' = Ev("logout", 0)
    /\ UNCHANGED <<authReqs, formVars>>
    /\ dashboardEffect

\* fetchCurrentUser after its await: setUser(response.data), finally setLoading(false)
meOk(r) ==
    /\ r \in meReqs
    /\ user' = AccountUser(OwnerOf(r.tok))
    /\ authLoading' = FALSE
    /\ meReqs' = meReqs \ {r}
    /\ authReqs' = IF formShown(authLoading, user) THEN orphaned(authReqs) ELSE authReqs
    /\ formAfter(formShown(authLoading, user), formLoading, formError)
    /\ ev' = Ev("meOk", r.id)
    /\ UNCHANGED <<storedToken, token, authHeader, isLogin, nextId>>
    /\ dashboardEffect

\* fetchCurrentUser, the request fails: logged, logout(), finally setLoading(false)
meFail(r) ==
    /\ r \in meReqs
    /\ storedToken' = logoutState.stored
    /\ token' = logoutState.token
    /\ user' = logoutState.user
    /\ tokenEffect(token, logoutState.token, logoutState.header, meReqs \ {r}, FALSE)
    /\ ev' = Ev("meFail", r.id)
    /\ UNCHANGED <<authReqs, formVars>>
    /\ dashboardEffect

\* the links under the forms: setIsLogin(false) / setIsLogin(true)
switchForm ==
    /\ formShown(authLoading, user)
    /\ isLogin' = ~isLogin
    /\ authReqs' = orphaned(authReqs)
    /\ formAfter(TRUE, formLoading, formError)
    /\ ev' = Ev("switchForm", 0)
    /\ UNCHANGED <<storedToken, token, user, authLoading, authHeader, meReqs, nextId>>
    /\ dashboardEffect

\* Login.handleSubmit / Register.handleSubmit up to the await:
\* setLoading(true); setError(''); login(email, password) or register(formData)
submitAuth(a) ==
    /\ formShown(authLoading, user)
    /\ ~formLoading
    /\ CanLogin
    /\ formLoading' = TRUE
    /\ formError' = ""
    /\ authReqs' = authReqs \cup
           {[id |-> nextId, kind |-> IF isLogin THEN "login" ELSE "register",
             account |-> a, orphan |-> FALSE]}
    /\ nextId' = nextId + 1
    /\ ev' = Ev("submitAuth", nextId)
    /\ UNCHANGED <<storedToken, token, user, authLoading, authHeader, meReqs, isLogin>>
    /\ dashboardEffect

\* login() / register() after the await: the token is stored and set, the user
\* set, the header set; the form, unmounted by then, is not updated
authOk(r) ==
    /\ r \in authReqs
    /\ storedToken' = TokenOf(r.account)
    /\ token' = TokenOf(r.account)
    /\ user' = AccountUser(r.account)
    /\ tokenEffect(token, TokenOf(r.account), TokenOf(r.account), meReqs, authLoading)
    /\ authReqs' = IF formShown(authLoading, user)
                   THEN orphaned(authReqs \ {r}) ELSE authReqs \ {r}
    /\ formAfter(TRUE, formLoading, formError)
    /\ ev' = [Ev("authOk", r.id) EXCEPT !.result = [success |-> TRUE, error |-> ""]]
    /\ UNCHANGED isLogin
    /\ dashboardEffect

\* (a slip of the catch block: the backend's detail is not read)
authErrorGeneric(kind, detail) ==
    IF kind = "login" THEN "Login failed" ELSE "Registration failed"

\* error.response?.data?.detail || 'Login failed' (or 'Registration failed')
authErrorMessage(kind, detail) ==
    IF detail # "" THEN detail
    ELSE IF kind = "login" THEN "Login failed" ELSE "Registration failed"

ErrorDetails == {"", "Incorrect email or password"}

\* login() / register(), the request fails: {success: false, error}; the form
\* that awaited it shows the error and clears its loading
authFail(r, detail) ==
    /\ r \in authReqs
    /\ authReqs' = authReqs \ {r}
    /\ formAfter(FALSE,
                 IF r.orphan THEN formLoading ELSE FALSE,
                 IF r.orphan THEN formError ELSE authErrorMessage(r.kind, detail))
    /\ ev' = [Ev("authFail", r.id) EXCEPT
                 !.result = [success |-> FALSE, error |-> authErrorMessage(r.kind, detail)]]
    /\ UNCHANGED <<storedToken, token, user, authLoading, authHeader, meReqs, isLogin, nextId>>
    /\ dashboardEffect

----------------------------------------------------------------------------
(* Specifications *)

\* a session established for user u, with no request of the session manager in flight
SessionOf(u) ==
    /\ storedToken = TokenOf(u.id) /\ token = TokenOf(u.id) /\ authHeader = TokenOf(u.id)
    /\ user = u
    /\ authLoading = FALSE
    /\ meReqs = {} /\ authReqs = {}
    /\ isLogin = TRUE /\ formLoading = FALSE /\ formError = ""

\* no TaskCard is mounted and none of its requests is in flight
NoCards ==
    /\ showComments = <<>> /\ newComment = <<>> /\ newStatus = <<>>
    /\ patchReqs = {} /\ commentReqs = {}

\* the CreateTaskDialog as it mounts
DialogMounted ==
    /\ open = FALSE /\ formData = formDefaults /\ dlgLoading = FALSE
    /\ searchTerm = <<>> /\ createReqs = {}

\* The roster views.  The Dashboard of a logged-in user has mounted and issued
\* fetchTasks() and fetchUsers(); the backend holds any roster and no task.
InitFilter ==
    /\ \E lvl \in [UserIds -> Levels], me \in UserIds :
          /\ SessionOf(UserRec(me, lvl[me]))
          /\ srvUsers \in Rosters(lvl)
    /\ srvTasks = <<>> /\ srvWriter = <<>>
    /\ tasks = <<>> /\ users = <<>> /\ loading = TRUE /\ activeTab = "my-tasks"
    /\ tasksReqs = {TasksReq(1, NoCause)} /\ usersReqs = {UsersReq(2)}
    /\ nextId = MountReqs + 1
    /\ NoCards /\ DialogMounted
    /\ ev = Ev("mount", 0)

NextFilter ==
    \/ \E r \in usersReqs : fetchUsersOk(r)
    \/ \E r \in usersReqs : fetchUsersFail(r)
    \/ \E r \in tasksReqs : tasksServe(r)
    \/ \E r \in tasksReqs : fetchTasksOk(r)
    \/ \E r \in tasksReqs : fetchTasksFail(r)
    \/ \E tab \in Tabs : setActiveTab(tab)
    \/ \E v \in BOOLEAN : setOpen(v)

SpecFilter == InitFilter /\ [][NextFilter]_vars

\* The creation dialog.  The Dashboard of a logged-in user has finished its first
\* fetchTasks() (the backend holds no task yet) and shows its tabs and the Create
\* Task button; fetchUsers() is still in flight.  The acting user is user 1, of
\* any level among colleagues of any levels (SpecFilter covers every acting user
\* and every order of the roster).  The dialog reads neither the task list nor
\* the priority and due date it holds, so the answers to the refetch a created
\* task starts and the edits of those two fields are left out.
InitDialog ==
    /\ \E lvl \in [UserIds -> Levels] :
          /\ SessionOf(UserRec(1, lvl[1]))
          /\ srvUsers = [i \in 1..Cardinality(UserIds) |-> UserRec(i, lvl[i])]
    /\ srvTasks = <<>> /\ srvWriter = <<>>
    /\ tasks = <<>> /\ users = <<>> /\ loading = FALSE /\ activeTab = "my-tasks"
    /\ tasksReqs = {} /\ usersReqs = {UsersReq(2)}
    /\ nextId = MountReqs + 1
    /\ NoCards /\ DialogMounted
    /\ ev = Ev("fetchTasksOk", 1)

NextDialog ==
    \/ \E r \in usersReqs : fetchUsersOk(r)
    \/ \E r \in usersReqs : fetchUsersFail(r)
    \/ \E v \in BOOLEAN : setOpen(v)
    \/ \E t \in FormTexts : handleChange("title", t)
    \/ \E t \in FormTexts : handleChange("description", t)
    \/ \E term \in SearchTerms : setSearchTerm(term)
    \/ \E u \in Range(users) : clickCandidate(u)
    \/ handleSubmit
    \/ \E r \in createReqs : createOk(r)
    \/ \E r \in createReqs : createFail(r)

SpecDialog == InitDialog /\ [][NextDialog]_vars

\* The task cards.  The Dashboard of user 1 has mounted and issued fetchTasks();
\* fetchUsers() has been answered.  The backend holds one task, in any status,
\* assigned to and by user 1 or user 2.
InitCard ==
    /\ SessionOf(UserRec(1, 2))
    /\ srvUsers = <<UserRec(1, 2), UserRec(2, 1)>>
    /\ users = srvUsers
    /\ \E st \in Statuses, to \in {1, 2}, by \in {1, 2} :
          srvTasks = <<TaskRec(1, st, to, by, <<>>)>>
    /\ srvWriter = [i \in {1} |-> 0]
    /\ tasks = <<>> /\ loading = TRUE /\ activeTab = "my-tasks"
    /\ tasksReqs = {TasksReq(1, NoCause)} /\ usersReqs = {}
    /\ nextId = MountReqs + 1
    /\ NoCards /\ DialogMounted
    /\ ev = Ev("mount", 0)

\* the task list and the tabs
NextTasks ==
    \/ \E r \in tasksReqs : tasksServe(r)
    \/ \E r \in tasksReqs : fetchTasksOk(r)
    \/ \E r \in tasksReqs : fetchTasksFail(r)
    \/ \E tab \in Tabs : setActiveTab(tab)

\* the status control of the cards
NextStatus ==
    \/ NextTasks
    \/ \E i \in TaskIdsOf(tasks), s \in Statuses : setNewStatus(i, s)
    \/ \E i \in TaskIdsOf(tasks) : handleStatusUpdate(i)
    \/ \E r \in patchReqs : patchOk(r)
    \/ \E r \in patchReqs : patchFail(r)

\* the comment box of the cards
NextComment ==
    \/ NextTasks
    \/ \E i \in TaskIdsOf(tasks) : toggleComments(i)
    \/ \E i \in TaskIdsOf(tasks), text \in CommentTexts : setNewComment(i, text)
    \/ \E i \in TaskIdsOf(tasks) : clickAdd(i)
    \/ \E r \in commentReqs : commentOk(r)
    \/ \E r \in commentReqs : commentFail(r)

SpecStatus == InitCard /\ [][NextStatus]_vars

\* The comment box reads no status: the one task starts assigned, to user 1 by
\* user 2 or to user 2 by user 1.
InitComment ==
    /\ InitCard
    /\ srvTasks[1].status = "assigned"
    /\ srvTasks[1].assigned_to # srvTasks[1].assigned_by

SpecComment == InitComment /\ [][NextComment]_vars

\* The session manager and the Dashboard it gates.  The page loads with or
\* without a token in localStorage; AuthProvider has mounted and its effect has
\* run: with a token the header is set and GET /api/auth/me is in flight, without
\* one loading is false.  The backend holds no user and no task.
InitAuth ==
    /\ storedToken \in {NoToken} \cup Tokens
    /\ token = storedToken
    /\ user = NoUser
    /\ authLoading = (token # NoToken)
    /\ authHeader = IF token # NoToken THEN effectHeader(token, NoToken) ELSE NoToken
    /\ meReqs = IF token # NoToken THEN {MeReq(1, authHeader, token)} ELSE {}
    /\ nextId = IF token # NoToken THEN 2 ELSE 1
    /\ authReqs = {}
    /\ isLogin = TRUE /\ formLoading = FALSE /\ formError = ""
    /\ srvUsers = <<>> /\ srvTasks = <<>> /\ srvWriter = <<>>
    /\ tasks = <<>> /\ users = <<>> /\ loading = TRUE /\ activeTab = "my-tasks"
    /\ tasksReqs = {} /\ usersReqs = {}
    /\ NoCards /\ DialogMounted
    /\ ev = Ev("mount", 0)

NextAuth ==
    \/ \E r \in meReqs : meOk(r)
    \/ \E r \in meReqs : meFail(r)
    \/ \E a \in Accounts : submitAuth(a)
    \/ \E r \in authReqs : authOk(r)
    \/ \E r \in authReqs, detail \in ErrorDetails : authFail(r, detail)
    \/ switchForm
    \/ logout
    \/ \E r \in tasksReqs : tasksServe(r)
    \/ \E r \in tasksReqs : fetchTasksOk(r)
    \/ \E r \in tasksReqs : fetchTasksFail(r)
    \/ \E r \in usersReqs : fetchUsersOk(r)
    \/ \E r \in usersReqs : fetchUsersFail(r)

SpecAuth == InitAuth /\ [][NextAuth]_vars

\* every request sent is answered in the end, with a success or a failure
meAnswered == \E r \in meReqs : meOk(r) \/ meFail(r)
authAnswered == \E r \in authReqs, detail \in ErrorDetails : authOk(r) \/ authFail(r, detail)
tasksAnswered == \E r \in tasksReqs : tasksServe(r) \/ fetchTasksOk(r) \/ fetchTasksFail(r)
usersAnswered == \E r \in usersReqs : fetchUsersOk(r) \/ fetchUsersFail(r)

SpecAuthLive ==
    /\ SpecAuth
    /\ WF_vars(meAnswered) /\ WF_vars(authAnswered)
    /\ WF_vars(tasksAnswered) /\ WF_vars(usersAnswered)

\* The failure paths.  The Dashboard of user 1 has mounted and issued
\* fetchTasks() and fetchUsers(); the backend holds one task, assigned to user 1
\* by user 2.  The user moves the task to in_progress, opens the comments and
\* types a comment, opens the dialog and types a title and a description, and
\* sends each; every request may succeed or fail.
InitFailures ==
    /\ SessionOf(UserRec(1, 2))
    /\ srvUsers = <<UserRec(1, 2), UserRec(2, 1)>>
    /\ srvTasks = <<TaskRec(1, "assigned", 1, 2, <<>>)>>
    /\ srvWriter = [i \in {1} |-> 0]
    /\ tasks = <<>> /\ users = <<>> /\ loading = TRUE /\ activeTab = "my-tasks"
    /\ tasksReqs = {TasksReq(1, NoCause)} /\ usersReqs = {UsersReq(MountReqs)}
    /\ nextId = MountReqs + 1
    /\ NoCards /\ DialogMounted
    /\ ev = Ev("mount", 0)

NextFailures ==
    \/ \E r \in tasksReqs : tasksServe(r)
    \/ \E r \in tasksReqs : fetchTasksOk(r)
    \/ \E r \in tasksReqs : fetchTasksFail(r)
    \/ \E r \in usersReqs : fetchUsersOk(r)
    \/ \E r \in usersReqs : fetchUsersFail(r)
    \/ \E i \in TaskIdsOf(tasks) : setNewStatus(i, "in_progress")
    \/ \E i \in TaskIdsOf(tasks) : handleStatusUpdate(i)
    \/ \E r \in patchReqs : patchOk(r)
    \/ \E r \in patchReqs : patchFail(r)
    \/ \E i \in TaskIdsOf(tasks) : ~showComments[i] /\ toggleComments(i)
    \/ \E i \in TaskIdsOf(tasks) : setNewComment(i, <<"a">>)
    \/ \E i \in TaskIdsOf(tasks) : clickAdd(i)
    \/ \E r \in commentReqs : commentOk(r)
    \/ \E r \in commentReqs : commentFail(r)
    \/ setOpen(TRUE)
    \/ handleChange("title", <<"a">>)
    \/ handleChange("description", <<"a">>)
    \/ handleSubmit
    \/ \E r \in createReqs : createOk(r)
    \/ \E r \in createReqs : createFail(r)

SpecFailures == InitFailures /\ [][NextFailures]_vars

----------------------------------------------------------------------------
(* Claims on the roster views, checked under SpecFilter *)

\* C1: the assignment candidate list, before the search filter, is exactly the
\* roster users whose id differs from the acting user's and whose role_level is at
\* most the acting user's; it holds neither the acting user nor a user of a
\* greater role_level.
C1_CandidatesAreHierarchyFiltered ==
    LET shown == Range(assignableUsers(users, user)) IN
    /\ shown = {u \in Range(users) : u.id # user.id /\ u.role_level <= user.role_level}
    /\ \A u \in shown : u.id # user.id /\ ~(u.role_level > user.role_level)

\* C1 witness: the roster has arrived, it holds the acting user, a superior and
\* an assignable user
C1_Witness ==
    /\ ev.op = "fetchUsersOk"
    /\ \E u \in Range(users) : u.id = user.id
    /\ \E u \in Range(users) : u.role_level > user.role_level
    /\ assignableUsers(users, user) # <<>>

\* C3: the Team Overview tab lists only users whose role_level is at most the
\* logged-in user's; a user of a strictly greater role_level is never listed.
C3_TeamOverviewHidesSuperiors ==
    \A u \in Range(teamOverviewShown) : u.role_level <= user.role_level

\* C3 witness: Team Overview is on screen with entries, and the roster holds a
\* superior of the logged-in user
C3_Witness ==
    /\ teamOverviewShown # <<>>
    /\ \E u \in Range(users) : u.role_level > user.role_level

\* C4, as claimed: Team Overview shows exactly the users the hierarchy filter
\* returns, so it never shows the acting user.
C4_TeamOverviewEqualsHierarchyFilter ==
    /\ Range(teamOverview(users, user)) = Range(assignableUsers(users, user))
    /\ \A u \in Range(teamOverview(users, user)) : u.id # user.id

\* C4, amended: Team Overview shows the users the hierarchy filter returns
\* together with the acting user's own roster entry (of a role_level at most the
\* acting user's): it does not exclude the acting user.
C4_TeamOverviewAddsSelf ==
    Range(teamOverview(users, user)) =
        Range(assignableUsers(users, user)) \cup
        {u \in Range(users) : u.id = user.id /\ u.role_level <= user.role_level}

\* C4 witness: Team Overview is on screen and lists the acting user beside a
\* user the hierarchy filter returns
C4_Witness ==
    /\ \E u \in Range(teamOverviewShown) : u.id = user.id
    /\ \E u \in Range(teamOverviewShown) : u \in Range(assignableUsers(users, user))

----------------------------------------------------------------------------
(* Claims on the creation dialog, checked under SpecDialog *)

\* the role_level the backend's roster gives the user with this id is at most the
\* creating user's
WithinHierarchy(id) ==
    \A u \in Range(srvUsers) : u.id = id => u.role_level <= user.role_level

\* C2: through any sequence of search edits, candidate clicks, cancel / reopen and
\* submits, no user of a role_level greater than the creating user's is offered as
\* a candidate, is selected in the form, or is carried as assigned_to by a POST
\* /api/tasks request.
C2_NoSuperiorSubmitted ==
    /\ \A u \in Range(candidatesShown) : u.role_level <= user.role_level
    /\ WithinHierarchy(formData.assigned_to)
    /\ \A r \in createReqs : WithinHierarchy(r.body.assigned_to)

\* C2 witness: a POST /api/tasks carrying a chosen assignee is in flight while
\* the roster holds a superior of the creating user
C2_Witness ==
    /\ \E r \in createReqs : r.body.assigned_to # NoAssignee
    /\ \E u \in Range(users) : u.role_level > user.role_level

\* C8: a POST /api/tasks request is issued only with a non-empty title, a
\* non-empty description and an assignee.
C8_CreateNeedsTitleDescriptionAssignee ==
    \A r \in createReqs :
        /\ r.body.title # <<>>
        /\ r.body.description # <<>>
        /\ r.body.assigned_to # NoAssignee

----------------------------------------------------------------------------
(* Claims on the task cards, checked under SpecStatus and SpecComment *)

\* C5: a PATCH /api/tasks/{id} status request is issued only for a task whose
\* assigned_to is the current user; for a task the user did not get assigned (one
\* they merely assigned) the status update cannot be issued.
C5_OnlyAssigneeUpdatesStatus ==
    /\ \A r \in patchReqs : TaskById(tasks, r.task).assigned_to = user.id
    /\ ev.op = "handleStatusUpdate" => TaskById(tasks, ev.id).assigned_to = user.id
    /\ \A i \in TaskIdsOf(tasks) :
          TaskById(tasks, i).assigned_to # user.id => ~ENABLED handleStatusUpdate(i)

\* C5 witness: a status request has just been issued from the Assigned by Me tab
C5_Witness ==
    /\ ev.op = "handleStatusUpdate"
    /\ activeTab = "assigned-tasks"
    /\ patchReqs # {}

\* C6, as claimed: when the refetch a successful status update started completes,
\* the client holds, for that task, the status that was sent.
C6_RefetchShowsSentStatus ==
    (ev.op = "fetchTasksOk" /\ ev.cause # NoCause)
        => TaskById(tasks, ev.cause.task).status = ev.cause.status

\* C6, amended: when the refetch a successful status update started completes
\* successfully, the client holds, for that task, the status that was sent, provided
\* that update was the last one the backend had applied to the task when it
\* answered the refetch.
C6_RefetchShowsSentStatusIfLatest ==
    (ev.op = "fetchTasksOk" /\ ev.cause # NoCause /\ ev.seen = ev.cause.id)
        => TaskById(tasks, ev.cause.task).status = ev.cause.status

\* C6 witness: such a refetch has completed and replaced another status
C6_Witness ==
    /\ ev.op = "fetchTasksOk" /\ ev.cause # NoCause /\ ev.seen = ev.cause.id
    /\ TaskById(tasks, ev.cause.task).status = "completed"
    /\ \E r \in tasksReqs : r.cause # NoCause

WhitespaceOnly(s) == \A k \in DOMAIN s : s[k] = " "

\* C7: a click on Add with an empty or whitespace-only comment text sends no
\* POST /api/tasks/{id}/comments, starts no refetch and leaves the comment input
\* and the task list as they were.
C7_BlankCommentIsNoOp ==
    [][\A i \in DOMAIN newComment :
          (ev'.op = "clickAdd" /\ ev'.id = i /\ WhitespaceOnly(newComment[i]))
              => UNCHANGED <<commentReqs, tasksReqs, nextId, newComment, tasks, srvTasks>>]_vars

\* C7 witness: Add has just been clicked on a text of spaces
C7_Witness ==
    /\ ev.op = "clickAdd"
    /\ newComment[ev.id] # <<>>
    /\ WhitespaceOnly(newComment[ev.id])

----------------------------------------------------------------------------
(* Claims on the session manager, checked under SpecAuth *)

\* nothing of a session is left: no stored token, no token, no user, no header
SessionCleared ==
    /\ storedToken = NoToken
    /\ token = NoToken
    /\ user = NoUser
    /\ authHeader = NoToken

\* C9: right after logout() has run, from whatever state, the stored token is
\* removed, the token and the user are null and the default Authorization header
\* is deleted.
C9_LogoutClearsSession ==
    ev.op = "logout" => SessionCleared

\* C9 witness: logout has just run while a GET /api/auth/me was still in flight
C9_Witness ==
    /\ ev.op = "logout"
    /\ meReqs # {}

\* C10: right after a GET /api/auth/me request has failed, the client is logged
\* out (stored token removed, token and user null, header deleted) and no longer
\* loading, so the login or register form is on screen.
C10_FailedMeLogsOut ==
    ev.op = "meFail" => (SessionCleared /\ ~authLoading /\ formShown(authLoading, user))

\* C10 witness: the /auth/me request of a page load with a stored token has failed
C10_Witness ==
    /\ ev.op = "meFail"
    /\ ev.id = 1

\* C11: every request sent while AuthProvider holds a token (from a successful
\* login or register, or a reload with a stored token, until the next logout)
\* carries that token as its Authorization header, never none and never the token
\* of an earlier session; so would a request sent in the current state.
C11_RequestsCarrySessionToken ==
    /\ \A r \in meReqs : r.session # NoToken => r.tok = r.session
    /\ \A r \in tasksReqs : r.session # NoToken => r.tok = r.session
    /\ \A r \in usersReqs : r.session # NoToken => r.tok = r.session
    /\ token # NoToken => authHeader = token

\* C11 witness: the Dashboard of a second session has just mounted and sent its
\* fetches while the GET /api/auth/me of the session before is still in flight
C11_Witness ==
    /\ ev.op = "authOk"
    /\ \E r \in tasksReqs : r.session = token /\ r.tok = token
    /\ \E r \in usersReqs : r.session = token /\ r.tok = token
    /\ \E q \in meReqs : q.session # token


\* C12: a login or register request that fails returns {success: false, error},
\* error being the backend's detail string when it sent one and otherwise 'Login
\* failed' (login) or 'Registration failed' (register), and leaves the stored
\* token, the token, the user and the Authorization header as they were.
C12_FailedAuthKeepsSession ==
    [][\A r \in authReqs, detail \in ErrorDetails :
          authFail(r, detail) =>
              /\ ev'.result.success = FALSE
              /\ ev'.result.error =
                     IF detail # "" THEN detail
                     ELSE IF r.kind = "login" THEN "Login failed" ELSE "Registration failed"
              /\ UNCHANGED <<storedToken, token, user, authHeader>>]_vars

\* C12 witness: a login sent from a form since left has failed with the backend's
\* detail while a later register has established a session
C12_Witness ==
    /\ ev.op = "authFail"
    /\ ev.result = [success |-> FALSE, error |-> "Incorrect email or password"]
    /\ token # NoToken /\ user # NoUser


----------------------------------------------------------------------------
(* Claim on the failure paths, checked under SpecFailures *)

FailureHandlers ==
    {"fetchTasksFail", "fetchUsersFail", "patchFail", "commentFail", "createFail"}

\* C13: when a tasks fetch, a users fetch, a status PATCH, a comment POST or a
\* task-create POST fails, the client sends no request (no retry, no refetch) and
\* the task list and the user list it holds stay as they were.
C13_FailuresOnlyLogged ==
    [][ev'.op \in FailureHandlers =>
          /\ UNCHANGED <<tasks, users, nextId>>
          /\ tasksReqs' \subseteq tasksReqs /\ usersReqs' \subseteq usersReqs
          /\ patchReqs' \subseteq patchReqs /\ commentReqs' \subseteq commentReqs
          /\ createReqs' \subseteq createReqs
          /\ UNCHANGED <<meReqs, authReqs>>]_vars

\* C13 witness: a task-create POST has failed while the client holds a task list
\* and a roster and the dialog still holds the typed title
C13_Witness ==
    /\ ev.op = "createFail"
    /\ tasks # <<>> /\ users # <<>>
    /\ formData.title # <<>>


----------------------------------------------------------------------------
(* Further claims on the status control, checked under SpecStatus *)

\* C14: status transitions are not forward-only.  On the card of a task assigned
\* to the current user every other status can be selected, and with a selected
\* status that differs from the task's status (a later or an earlier one) the
\* PATCH can be sent; the PATCH just sent carries the selected value, which is one
\* of the three statuses and differs from the task's status; with the selected
\* value equal to the task's status no PATCH can be sent.
C14_AnyOtherStatusCanBeSent ==
    /\ \A r \in patchReqs : r.status \in Statuses
    /\ ev.op = "handleStatusUpdate" =>
          \E r \in patchReqs :
              /\ r.id = nextId - 1 /\ r.task = ev.id
              /\ r.status = newStatus[ev.id]
              /\ r.status # TaskById(tasks, ev.id).status
    /\ \A i \in TaskIdsOf(tasks) :
          statusControlShown(i) =>
              /\ \A s \in Statuses \ {newStatus[i]} : ENABLED setNewStatus(i, s)
              /\ (newStatus[i] # TaskById(tasks, i).status /\ CanIssue)
                     => ENABLED handleStatusUpdate(i)
              /\ newStatus[i] = TaskById(tasks, i).status
                     => ~ENABLED handleStatusUpdate(i)

\* C14 witness: a PATCH moving a completed task back to assigned has just been sent
C14_Witness ==
    /\ ev.op = "handleStatusUpdate"
    /\ TaskById(tasks, ev.id).status = "completed"
    /\ \E r \in patchReqs : r.task = ev.id /\ r.status = "assigned"


----------------------------------------------------------------------------
(* Claim on seniority, checked under SpecFilter *)

\* a is more senior than b: with the lower role_level the more senior, and with
\* the higher role_level the more senior
MoreSeniorLowerFirst(a, b) == a.role_level < b.role_level
MoreSeniorHigherFirst(a, b) == a.role_level > b.role_level

\* C15, as claimed: with a lower role_level denoting a more senior role, no user
\* more senior than the assigner is offered for assignment, in the candidate list
\* or on the candidate cards of the dialog.
C15_NoSeniorOfferedLowerFirst ==
    /\ \A u \in Range(assignableUsers(users, user)) : ~MoreSeniorLowerFirst(u, user)
    /\ \A u \in Range(candidatesShown) : ~MoreSeniorLowerFirst(u, user)

\* C15, amended: with a higher role_level denoting a more senior role, every user
\* offered for assignment is at or below the assigner's seniority and no user
\* more senior than the assigner is offered.
C15_NoSeniorOfferedHigherFirst ==
    /\ \A u \in Range(assignableUsers(users, user)) : ~MoreSeniorHigherFirst(u, user)
    /\ \A u \in Range(candidatesShown) : ~MoreSeniorHigherFirst(u, user)

\* C15 witness: the open dialog offers a user of a lower role_level than the
\* assigner's while the roster holds one of a higher role_level
C15_Witness ==
    /\ \E u \in Range(candidatesShown) : u.role_level < user.role_level
    /\ \E u \in Range(users) : u.role_level > user.role_level


----------------------------------------------------------------------------
(* Claim on the submit of the creation form, checked under SpecDialog *)

\* the form as the claim describes its defaults
FormAtDefaults ==
    /\ formData.title = <<>> /\ formData.description = <<>>
    /\ formData.assigned_to = NoAssignee
    /\ formData.priority = "medium" /\ formData.due_date = NoDate

\* a submit sends exactly one POST /api/tasks, carrying the form's data
OnePostSent ==
    ev.op = "handleSubmit" =>
        /\ Cardinality(createReqs) = 1
        /\ \A r \in createReqs : r.id = ev.id /\ r.body = formData

----------------------------------------------------------------------------
(* Further claims on the session manager, checked under SpecAuth *)

\* C17: in every reachable state a user that is set comes with a token and an
\* Authorization header: a GET /api/auth/me answer that arrives after logout does
\* not set the user again, and the Dashboard is never on screen without a token.
C17_UserImpliesToken ==
    /\ user # NoUser => (token # NoToken /\ authHeader # NoToken)
    /\ dashboardShown => token # NoToken


----------------------------------------------------------------------------
(* Claims on concurrent requests of the cards, checked under SpecStatus *)

\* C18: with several task-list fetches in flight and their responses arriving in
\* any order, an older response never overwrites a newer one: right after the
\* response of one fetch has been put into the task list, the list is not changed
\* to the response of a fetch sent before that one.
C18_OlderResponseNeverReplacesNewer ==
    [][~(/\ ev.op = "fetchTasksOk"
         /\ ev'.op = "fetchTasksOk"
         /\ ev'.id < ev.id
         /\ tasks' # tasks)]_vars


\* C19: a mutating request is sent at most once per intent: no two status PATCH
\* requests for the same task and the same status are in flight together, and no
\* two comment POST requests for the same task and the same text.
C19_NoDuplicateInFlight ==
    /\ \A r, q \in patchReqs : (r.task = q.task /\ r.status = q.status) => r = q
    /\ \A r, q \in commentReqs : (r.task = q.task /\ r.text = q.text) => r = q


----------------------------------------------------------------------------
(* Claim on the loading flags, checked under SpecAuthLive *)

\* C20: with every request answered in the end, AuthProvider's loading becomes
\* false from every start state, with or without a stored token, and is never
\* true again; a Dashboard on screen with loading true comes to loading false,
\* whether its tasks fetch succeeds or fails, unless it is taken off screen first,
\* and as long as it stays on screen its loading is never true again.
C20_LoadingEnds ==
    /\ <>[](~authLoading)
    /\ [][~authLoading => ~authLoading']_vars
    /\ (dashboardShown /\ loading) ~> (~dashboardShown \/ ~loading)
    /\ [][(dashboardShown /\ ~loading /\ dashboardShown') => ~loading']_vars

\* C20 witness: after a reload with a stored token the tasks fetch of the
\* Dashboard has failed, and both loading flags are false
C20_Witness ==
    /\ ev.op = "fetchTasksFail"
    /\ storedToken # NoToken /\ authReqs = {} /\ nextId = 2
    /\ dashboardShown /\ ~loading /\ ~authLoading


====
